---- MODULE Spec2Model ----
(***************************************************************************)
(* A model of dataio/data.py, class read: the ring-artifact filter         *)
(* (removeRings) and the rotation-center search (optimizeCenter with its   *)
(* cost function _costFunc).                                               *)
(*                                                                         *)
(* Arrays are modelled by what the code observes of them:                  *)
(*   - a slice of the stack by its provenance (which original slice its    *)
(*     values were computed from, and whether they went through the        *)
(*     damped wavelet round trip);                                         *)
(*   - a wavelet sub-band by its shape (rows, cols) and its provenance;    *)
(*   - a reconstructed image by its pixel values (small integers).         *)
(* Values with halves (0.5 * x) are kept doubled, as integers.            *)
(***************************************************************************)
EXTENDS Integers, Sequences, FiniteSets, TLC

VARIABLES
    \* ---- the read object (self) ----
    numProjections,   \* self.data.shape[0]
    numSlices,        \* self.data.shape[1]
    numPixels,        \* self.data.shape[2]
    data,             \* self.data, per slice index: provenance of data[:, s, :]
    center,           \* self.center
    \* ---- the running call ----
    pc,               \* position in the running method ("idle" when none)
    err,              \* exception that ended the call ("none" when none)
    \* ---- removeRings locals ----
    level, wname,     \* parameters (wname: order N of the Daubechies dbN filter)
    m,                \* THE loop variable, shared by the outer and inner loops
    outerIt,          \* next index the outer range iterator will yield
    innerIt,          \* next position of the running inner range iterator
    im, cH, cV, cD,   \* approximation and the three detail pyramids
    fcV,              \* damped, centre-shifted spectrum rows of the last cV[m]
    nim,              \* reconstruction accumulator
    \* ---- optimizeCenter / _costFunc locals ----
    sliceNo, inCenter, histMin, histMax,
    recon,            \* the tomoRecon handle: calls made, last call, last data
    histr,            \* _costFunc: histogram counts of the last evaluation
    cost,             \* _costFunc: value returned by the last evaluation
    evals,            \* minimize: number of cost evaluations so far
    best,             \* minimize: best vertex so far
    ret               \* value returned by optimizeCenter

objVars  == <<numProjections, numSlices, numPixels, data, center>>
ringVars == <<level, wname, m, outerIt, innerIt, im, cH, cV, cD, fcV, nim>>
optVars  == <<sliceNo, inCenter, histMin, histMax, recon, histr, cost, evals, best, ret>>
vars     == <<objVars, pc, err, ringVars, optVars>>

----------------------------------------------------------------------------
(* Bounds of the model.                                                    *)
MaxProjections == 4
MaxSlices      == 3
MaxPixels      == 4
MaxLevel       == 3
MaxOrder       == 10
MaxValue       == 1
ReconPixels    == 2
MaxEvals       == 2
OptSlices      == 2
OptPixels      == 2

(* Program constants.                                                      *)
NumBins == 64

None == "None"

Min(a, b) == IF a < b THEN a ELSE b

----------------------------------------------------------------------------
(* The state after construction (__init__).                                *)

\* self.data[:, s, :] as read from the file: original slice s, not de-ringed.
Original(s) == [src |-> s, deringed |-> FALSE]

\* self.center = self.data.shape[2] / 2   (Python 2 integer division)
DefaultCenter(nPixels) == nPixels \div 2

NoArray == [rows |-> 0, cols |-> 0, src |-> None, damped |-> FALSE]
NoRecon == [calls |-> 0, sliceNo |-> <<>>, center |-> <<>>, data |-> <<>>]
NoCost  == [num |-> 0, den |-> 1]
NoBest  == [x |-> 0, cost |-> NoCost]

RingLocalsInit ==
    /\ level = 0 /\ wname = 1 /\ m = None /\ outerIt = 0 /\ innerIt = 0
    /\ im = NoArray /\ cH = <<>> /\ cV = <<>> /\ cD = <<>>
    /\ fcV = <<>> /\ nim = NoArray

OptLocalsInit ==
    /\ sliceNo = <<>> /\ inCenter = <<>> /\ histMin = <<>> /\ histMax = <<>>
    /\ recon = NoRecon /\ histr = <<>> /\ cost = NoCost
    /\ evals = 0 /\ best = NoBest /\ ret = <<>>

Constructed(nProj, nSl, nPix) ==
    /\ numProjections = nProj
    /\ numSlices = nSl
    /\ numPixels = nPix
    /\ data = [s \in 0..(nSl - 1) |-> Original(s)]
    /\ center = DefaultCenter(nPix)
    /\ pc = "idle"
    /\ err = "none"
    /\ RingLocalsInit
    /\ OptLocalsInit

----------------------------------------------------------------------------
(* removeRings                                                             *)

\* Filter length of the dbN wavelet (pywt: Wavelet('dbN').dec_len = 2N).
DecLen(N) == 2 * N

\* Extent of each pywt.dwt2 output along an axis of extent n (default
\* symmetric signal extension): floor((n + L - 1) / 2).
DwtLen(n, L) == (n + L - 1) \div 2

\* Extent of the pywt.idwt2 output for coefficients of extent n: 2n - L + 2.
IdwtLen(n, L) == 2 * n - L + 2

\* Mutant of CropTo: the slice stops one element short (0:stop-1).
CropShort(n, stop) == Min(n, stop - 1)

\* nim[0:r, 0:c]: a Python slice keeps min(extent, stop) elements.
CropTo(n, stop) == Min(n, stop)

\* im, (cHt, cVt, cDt) = pywt.dwt2(im, wname): all four have the same shape.
Dwt2(a, N) ==
    [a EXCEPT !.rows = DwtLen(a.rows, DecLen(N)),
              !.cols = DwtLen(a.cols, DecLen(N))]

\* y_hat = (np.arange(-my, my, 2, dtype='float') + 1) / 2, kept doubled:
\* element i (0-based) of arange(-my, my, 2) is -my + 2i.
TwoYHat(my) == [i \in 1..my |-> (-my + 2 * (i - 1)) + 1]

\* np.fft.fft along axis 0: output row i (0-based) holds frequency
\* i for i < ceil(my/2) and i - my above (rows are labelled by frequency).
FftFreqs(my) == [i \in 1..my |-> IF (i - 1) < (my + 1) \div 2 THEN i - 1 ELSE i - 1 - my]

\* np.fft.fftshift: rolls the axis by my div 2, so that output row j (0-based)
\* is input row (j - my div 2) mod my.
FftShift(x) ==
    LET n == Len(x)
    IN  [j \in 1..n |-> x[(((j - 1) - (n \div 2)) % n) + 1]]

\* fcV = fftshift(fft(cV[m])) * damp: per row, the frequency it carries and
\* the (doubled) y_hat whose damping factor 1 - exp(-y_hat^2 / (2 sigma^2))
\* multiplies it.  The factor is 0 exactly when y_hat = 0 (sigma > 0).
DampedSpectrum(my) ==
    LET shifted == FftShift(FftFreqs(my))
        twoY    == TwoYHat(my)
    IN  [j \in 1..my |-> [freq |-> shifted[j], twoYHat |-> twoY[j]]]

\* for m in range(self.data.shape[1]): print, then enter the outer loop.
RemoveRingsCall ==
    /\ pc = "idle"
    /\ \E lv \in 0..MaxLevel, N \in 1..MaxOrder :
          /\ level' = lv
          /\ wname' = N
    /\ pc' = "outer"
    /\ outerIt' = 0
    /\ UNCHANGED <<objVars, err, m, innerIt, im, cH, cV, cD, fcV, nim, optVars>>

\* The outer for statement: take the next slice index into m, or finish.
OuterNext ==
    /\ pc = "outer"
    /\ \/ /\ outerIt < numSlices
          /\ m' = outerIt
          /\ outerIt' = outerIt + 1
          /\ im' = [rows |-> numProjections, cols |-> numPixels,
                    src |-> data[outerIt].src, damped |-> data[outerIt].deringed]
          /\ cH' = <<>> /\ cV' = <<>> /\ cD' = <<>>
          /\ innerIt' = 0
          /\ pc' = "decompose"
          /\ UNCHANGED <<fcV, nim>>
       \/ /\ outerIt >= numSlices
          /\ pc' = "done"
          /\ UNCHANGED <<m, outerIt, innerIt, im, cH, cV, cD, fcV, nim>>
    /\ UNCHANGED <<objVars, err, level, wname, optVars>>

\* for m in range(level): im, (cHt, cVt, cDt) = pywt.dwt2(im, wname); append.
DecomposeStep ==
    /\ pc = "decompose"
    /\ \/ /\ innerIt < level
          /\ m' = innerIt
          /\ innerIt' = innerIt + 1
          /\ im' = Dwt2(im, wname)
          /\ cH' = Append(cH, Dwt2(im, wname))
          /\ cV' = Append(cV, Dwt2(im, wname))
          /\ cD' = Append(cD, Dwt2(im, wname))
          /\ pc' = pc
       \/ /\ innerIt >= level
          /\ innerIt' = 0
          /\ pc' = "damp"
          /\ UNCHANGED <<m, im, cH, cV, cD>>
    /\ UNCHANGED <<objVars, err, level, wname, outerIt, fcV, nim, optVars>>

\* for m in range(level): damp the spectrum of cV[m] along axis 0.
DampStep ==
    /\ pc = "damp"
    /\ \/ /\ innerIt < level
          /\ m' = innerIt
          /\ innerIt' = innerIt + 1
          /\ fcV' = DampedSpectrum(cV[innerIt + 1].rows)
          /\ cV' = [cV EXCEPT ![innerIt + 1].damped = TRUE]
          /\ pc' = pc
          /\ UNCHANGED nim
       \/ /\ innerIt >= level
          /\ innerIt' = 0
          /\ nim' = im
          /\ pc' = "recon"
          /\ UNCHANGED <<m, fcV, cV>>
    /\ UNCHANGED <<objVars, err, level, wname, outerIt, im, cH, cD, optVars>>

\* for m in range(level)[::-1]: crop nim to cH[m]'s shape, then idwt2.
\* pywt.idwt2 raises ValueError when the coefficient shapes differ.
ReconStep ==
    /\ pc = "recon"
    /\ \/ /\ innerIt < level
          /\ LET k    == (level - 1) - innerIt
                 rows == CropTo(nim.rows, cH[k + 1].rows)
                 cols == CropTo(nim.cols, cH[k + 1].cols)
                 same == rows = cH[k + 1].rows /\ cols = cH[k + 1].cols
             IN  /\ m' = k
                 /\ innerIt' = innerIt + 1
                 /\ nim' = IF same
                           THEN [rows |-> IdwtLen(rows, DecLen(wname)),
                                 cols |-> IdwtLen(cols, DecLen(wname)),
                                 src |-> nim.src,
                                 damped |-> nim.damped \/ cV[k + 1].damped]
                           ELSE [nim EXCEPT !.rows = rows, !.cols = cols]
                 /\ pc' = IF same THEN pc ELSE "error"
                 /\ err' = IF same THEN err ELSE "ValueError"
       \/ /\ innerIt >= level
          /\ pc' = "write"
          /\ UNCHANGED <<m, innerIt, nim, err>>
    /\ UNCHANGED <<objVars, level, wname, outerIt, im, cH, cV, cD, fcV, optVars>>

\* nim = nim[0:shape[0], 0:shape[2]]; self.data[:, m, :] = nim
\* (numpy assigns when each extent equals the target's or is 1, and raises
\* ValueError otherwise).
WriteBack ==
    /\ pc = "write"
    /\ LET rows == CropTo(nim.rows, numProjections)
           cols == CropTo(nim.cols, numPixels)
           fits == /\ (rows = numProjections \/ rows = 1)
                   /\ (cols = numPixels \/ cols = 1)
       IN  /\ nim' = [nim EXCEPT !.rows = rows, !.cols = cols]
           /\ data' = IF fits
                      THEN [data EXCEPT ![m] = [src |-> nim.src, deringed |-> nim.damped]]
                      ELSE data
           /\ pc' = IF fits THEN "outer" ELSE "error"
           /\ err' = IF fits THEN err ELSE "ValueError"
    /\ UNCHANGED <<numProjections, numSlices, numPixels, center,
                   level, wname, m, outerIt, innerIt, im, cH, cV, cD, fcV, optVars>>

InitRings ==
    \E nProj \in 1..MaxProjections, nSl \in 1..MaxSlices, nPix \in 1..MaxPixels :
        Constructed(nProj, nSl, nPix)

NextRings ==
    \/ RemoveRingsCall
    \/ OuterNext
    \/ DecomposeStep
    \/ DampStep
    \/ ReconStep
    \/ WriteBack

SpecRings == InitRings /\ [][NextRings]_vars

----------------------------------------------------------------------------
(* optimizeCenter and _costFunc                                            *)
(*                                                                         *)
(* An optional argument is a sequence: <<>> is None, <<v>> the scalar v,   *)
(* a longer sequence an array (not np.isscalar).  histMin and histMax     *)
(* hold twice their value, so that 0.5 * x stays an integer.               *)

Scalar(v) == <<v>>

\* Candidate centers: coordinates along the pixel axis.
Centers == 0..numPixels

\* Pixel values of a reconstructed (or smoothed) image.
PixelVals == (-MaxValue)..MaxValue

\* Reconstructed images, up to pixel order (min, max and the histogram do
\* not depend on it): nondecreasing sequences of ReconPixels values.
Images ==
    {img \in [1..ReconPixels -> PixelVals] :
        \A i \in 1..(ReconPixels - 1) : img[i] <= img[i + 1]}

\* np.min / np.max of a nondecreasing image.
ArrayMin(img) == img[1]
ArrayMax(img) == img[Len(img)]

\* Mutant of SliceNoRejected: the comparison is off by one.
SliceNoRejectedOffByOne(arg) == arg # <<>> /\ arg[1] > numSlices + 1

\* elif sliceNo > numSlices: raise ValueError
SliceNoRejected(arg) == arg # <<>> /\ arg[1] > numSlices

\* elif not np.isscalar(inCenter): raise ValueError
InCenterRejected(arg) == arg # <<>> /\ Len(arg) # 1

\* histMin = np.min(recon.data); 2 * histMin if negative, else 0.5 * histMin
\* (result doubled).
DefaultHistMin(lo) == IF lo < 0 THEN 2 * (2 * lo) ELSE lo

\* Mutant of DefaultHistMax: the two factors are swapped.
DefaultHistMaxSwapped(hi) == IF hi < 0 THEN 2 * (2 * hi) ELSE hi

\* histMax = np.max(recon.data); 0.5 * histMax if negative, else 2 * histMax
\* (result doubled).
DefaultHistMax(hi) == IF hi < 0 THEN hi ELSE 2 * (2 * hi)

\* recon.run(reconInput, sliceNo=sliceNo): reconstructs slice sliceNo at the
\* stack's center attribute; the image it leaves in recon.data is img.
ReconRun(img) ==
    [calls |-> recon.calls + 1, sliceNo |-> sliceNo, center |-> Scalar(center),
     data |-> img]

\* Lines 217-228: defaults and validation of sliceNo and inCenter.
OptimizeCenterCall ==
    /\ pc = "idle"
    /\ \E sliceArg \in {<<>>} \cup {Scalar(v) : v \in (-1)..(numSlices + 1)},
          centerArg \in {<<>>, <<0, 0>>} \cup {Scalar(c) : c \in Centers},
          minArg \in {<<>>, Scalar(2 * 0)},
          maxArg \in {<<>>, Scalar(2 * MaxValue)} :
          /\ histMin' = minArg
          /\ histMax' = maxArg
          /\ IF SliceNoRejected(sliceArg)
             THEN /\ sliceNo' = sliceArg
                  /\ inCenter' = centerArg
                  /\ pc' = "error"
                  /\ err' = "ValueError"
             ELSE /\ sliceNo' = IF sliceArg = <<>> THEN Scalar(numSlices \div 2)
                                                  ELSE sliceArg
                  /\ IF InCenterRejected(centerArg)
                     THEN /\ inCenter' = centerArg
                          /\ pc' = "error"
                          /\ err' = "ValueError"
                     ELSE /\ inCenter' = IF centerArg = <<>>
                                         THEN Scalar(numPixels \div 2)
                                         ELSE centerArg
                          /\ pc' = "probe"
                          /\ err' = err
    /\ UNCHANGED <<objVars, ringVars, recon, histr, cost, evals, best, ret>>

\* Lines 231-245: the probe reconstruction and the default histogram range.
Probe ==
    /\ pc = "probe"
    /\ \E img \in Images :
          /\ recon' = ReconRun(img)
          /\ histMin' = IF histMin = <<>>
                        THEN Scalar(DefaultHistMin(ArrayMin(img)))
                        ELSE histMin
          /\ histMax' = IF histMax = <<>>
                        THEN Scalar(DefaultHistMax(ArrayMax(img)))
                        ELSE histMax
    /\ pc' = "minimize"
    /\ UNCHANGED <<objVars, err, ringVars, sliceNo, inCenter, histr, cost, evals,
                   best, ret>>

\* np.histogram(a, bins=64, range=[mn, mx]) with mn <= mx, on doubled values:
\* an empty range is widened by 0.5 on each side; a value outside the range
\* is counted in no bin; bin i holds [edge_i, edge_i+1), the last bin also mx.
HistLo(mn, mx) == IF mn = mx THEN mn - 1 ELSE mn
HistHi(mn, mx) == IF mn = mx THEN mx + 1 ELSE mx

BinOf(v2, lo, hi) ==
    IF v2 < lo \/ v2 > hi THEN 0
    ELSE IF v2 = hi THEN NumBins
    ELSE (((v2 - lo) * NumBins) \div (hi - lo)) + 1

Histogram(a, mn, mx) ==
    LET bins == [i \in 1..Len(a) |-> BinOf(2 * a[i], HistLo(mn, mx), HistHi(mn, mx))]
    IN  [b \in 1..NumBins |-> Cardinality({i \in 1..Len(a) : bins[i] = b})]

RECURSIVE Pow(_, _)
Pow(b, e) == IF e = 0 THEN 1 ELSE b * Pow(b, e - 1)

RECURSIVE SumUpTo(_, _)
SumUpTo(h, b) == IF b = 0 THEN 0 ELSE h[b] + SumUpTo(h, b - 1)

RECURSIVE SelfPowProduct(_, _)
SelfPowProduct(h, b) ==
    IF b = 0 THEN 1 ELSE Pow(h[b], h[b]) * SelfPowProduct(h, b - 1)

\* -np.dot(histr, np.log2(histr)) with histr = counts / size (+ 1e-12):
\*   size * cost = log2( size^(sum of counts) / product of count^count ),
\* so the cost is kept as that fraction num/den, which orders as the cost
\* does.  The 1e-12 added to every bin only keeps log2 finite.
Entropy(h, size) ==
    [num |-> Pow(size, SumUpTo(h, NumBins)), den |-> SelfPowProduct(h, NumBins)]

CostLess(a, b) == a.num * b.den < b.num * a.den

\* One evaluation of _costFunc(center, ...) by the minimizer.  Nelder-Mead
\* evaluates x0 = inCenter first, then the second vertex of its initial
\* simplex (a different point), then the points its moves propose; it keeps
\* as best the vertex of strictly smallest cost.
CostEval ==
    /\ pc = "minimize"
    /\ evals < MaxEvals
    /\ \E c \in Centers, img \in Images, smoothed \in Images :
          /\ evals = 0 => c = inCenter[1]
          /\ evals = 1 => c # inCenter[1]
          /\ ArrayMin(img) <= ArrayMin(smoothed)
          /\ ArrayMax(smoothed) <= ArrayMax(img)
          /\ center' = c
          /\ recon' = [ReconRun(img) EXCEPT !.center = Scalar(c)]
          /\ IF histMin[1] > histMax[1]
             THEN /\ pc' = "error"
                  /\ err' = "ValueError"
                  /\ UNCHANGED <<histr, cost, evals, best>>
             ELSE /\ histr' = Histogram(smoothed, histMin[1], histMax[1])
                  /\ cost' = Entropy(histr', Len(img))
                  /\ evals' = evals + 1
                  /\ best' = IF evals = 0 \/ CostLess(cost', best.cost)
                              THEN [x |-> c, cost |-> cost']
                              ELSE best
                  /\ UNCHANGED <<pc, err>>
    /\ UNCHANGED <<numProjections, numSlices, numPixels, data, ringVars,
                   sliceNo, inCenter, histMin, histMax, ret>>

\* minimize returns; print; return res.x
MinimizeReturn ==
    /\ pc = "minimize"
    /\ evals >= 2
    /\ ret' = Scalar(best.x)
    /\ pc' = "done"
    /\ UNCHANGED <<objVars, err, ringVars, sliceNo, inCenter, histMin, histMax,
                   recon, histr, cost, evals, best>>

\* The call is over (returned or raised): its locals are gone, the object
\* stays as the call left it.
Return ==
    /\ pc \in {"done", "error"}
    /\ pc' = "idle"
    /\ err' = "none"
    /\ sliceNo' = <<>> /\ inCenter' = <<>> /\ histMin' = <<>> /\ histMax' = <<>>
    /\ recon' = NoRecon /\ histr' = <<>> /\ cost' = NoCost
    /\ evals' = 0 /\ best' = NoBest /\ ret' = <<>>
    /\ UNCHANGED <<objVars, ringVars>>

\* optimizeCenter never reads shape[0]: one projection count is enough.
InitCenter ==
    \E nSl \in 1..OptSlices, nPix \in 1..OptPixels :
        Constructed(1, nSl, nPix)

NextCenter ==
    \/ OptimizeCenterCall
    \/ Probe
    \/ CostEval
    \/ MinimizeReturn
    \/ Return

SpecCenter == InitCenter /\ [][NextCenter]_vars

\* optimizeCenter from its call to the point where minimize is entered
\* (lines 216-245): defaults, validation, probe and histogram range.
NextProbe ==
    \/ OptimizeCenterCall
    \/ Probe
    \/ Return

SpecProbe == InitCenter /\ [][NextProbe]_vars

----------------------------------------------------------------------------
(* Properties of removeRings, checked under SpecRings.                     *)

\* C1: after removeRings returns with level >= 1, every slice index s holds
\* the de-ringed reconstruction computed from the original data[:, s, :],
\* and at no time does a slice index hold values computed from another slice.
C1_WriteBackToOwnSlice ==
    /\ \A s \in DOMAIN data : data[s].src = s
    /\ (pc = "done" /\ level >= 1) =>
          \A s \in DOMAIN data : data[s] = [src |-> s, deringed |-> TRUE]

\* Number of decompositions an axis of extent n supports for filter length
\* L (pywt.dwt_max_level): the largest k with (L - 1) * 2^k <= n.
RECURSIVE DwtMaxLevel(_, _)
DwtMaxLevel(n, L) ==
    IF 2 * (L - 1) > n THEN 0 ELSE 1 + DwtMaxLevel(n \div 2, L)

SupportedLevels ==
    Min(DwtMaxLevel(numProjections, DecLen(wname)),
        DwtMaxLevel(numPixels, DecLen(wname)))

\* C2: a call whose level exceeds what the slice dimensions support ends in
\* a DecompositionTooDeep error, without having decomposed level times and
\* without having modified any slice.
C2_TooDeepFails ==
    (pc \in {"done", "error"} /\ level > SupportedLevels) =>
        /\ pc = "error"
        /\ err = "DecompositionTooDeep"
        /\ Len(cH) < level
        /\ \A s \in DOMAIN data : data[s] = Original(s)

\* C3: the stack keeps its shape by truncation only: at every reconstruction
\* level the accumulator is at least as large as that level's horizontal
\* sub-band, the final reconstruction is at least as large as the slice, the
\* written slice has exactly the slice's dimensions, and no shape error ends
\* the call.
C3_ShapeByTruncation ==
    /\ err = "none"
    /\ (pc = "recon" /\ innerIt < level) =>
          /\ nim.rows >= cH[level - innerIt].rows
          /\ nim.cols >= cH[level - innerIt].cols
    /\ pc = "write" =>
          /\ nim.rows >= numProjections
          /\ nim.cols >= numPixels
    /\ (pc \in {"outer", "done"} /\ outerIt >= 1) =>
          /\ nim.rows = numProjections
          /\ nim.cols = numPixels
    /\ DOMAIN data = 0..(numSlices - 1)

\* C3 witness: a slice with odd extents went through two or more levels,
\* came back larger than the slice and was written cropped.
C3_Witness ==
    /\ pc = "done"
    /\ level >= 2
    /\ numSlices >= 2
    /\ numProjections % 2 = 1
    /\ numPixels % 2 = 1
    /\ IdwtLen(cH[1].rows, DecLen(wname)) > numProjections
    /\ nim.rows = numProjections
    /\ nim.cols = numPixels

\* C4: the row of the centre-shifted spectrum that carries frequency 0 is
\* multiplied by the damping factor of y_hat = 0, that is by exactly 0; and
\* that row is row my div 2.
C4_ZeroFrequencyFullyDamped ==
    fcV # <<>> =>
        /\ fcV[(Len(fcV) \div 2) + 1].freq = 0
        /\ \A j \in 1..Len(fcV) : fcV[j].freq = 0 => fcV[j].twoYHat = 0

----------------------------------------------------------------------------
(* Properties of optimizeCenter and _costFunc, checked under SpecCenter     *)
(* (C6 and C7, which concern lines 216-245 only, under SpecProbe).         *)

\* C5: the probe reconstruction that precedes the search is computed at the
\* initial center inCenter (the default when omitted), whatever the center
\* attribute held before the call.
C5_ProbeAtInitialCenter ==
    (pc = "minimize" /\ evals = 0) => recon.center = inCenter

\* C6: a call whose sliceNo exceeds the number of slices, or whose inCenter
\* is not a scalar, ends at once in ValueError (the InvalidParameter error):
\* no reconstruction, no cost evaluation, data and center unchanged.
C6_EagerValidation ==
    [][ ( /\ pc = "idle"
          /\ pc' \in {"probe", "minimize", "done", "error"}
          /\ \/ (sliceNo' # <<>> /\ sliceNo'[1] > numSlices)
             \/ Len(inCenter') > 1 )
        => ( /\ pc' = "error"
             /\ err' = "ValueError"
             /\ recon'.calls = 0
             /\ evals' = 0
             /\ center' = center
             /\ data' = data ) ]_vars

\* C6 witness: a call with sliceNo above the slice count has been rejected.
C6_Witness ==
    /\ pc = "error"
    /\ err = "ValueError"
    /\ sliceNo # <<>>
    /\ sliceNo[1] > numSlices
    /\ recon.calls = 0

C8_HistogramSumsToOne ==
    histr # <<>> => SumUpTo(histr, NumBins) = Len(recon.data)

\* C9: when optimizeCenter has returned, the center attribute equals the
\* returned optimal center.
C9_CenterIsReturnedOptimum ==
    pc = "done" => Scalar(center) = ret

\* C10: every reconstruction invoked by optimizeCenter or by the cost
\* function is given a sliceNo with 0 <= sliceNo < numSlices.
C10_SliceNoInRange ==
    recon.calls > 0 =>
        /\ 0 <= recon.sliceNo[1]
        /\ recon.sliceNo[1] < numSlices

====
